---- MODULE Spec2Model ----
(***************************************************************************)
(* Model of query_processor.py: the relation store, the definition parser, *)
(* the condition evaluator, the relational operators, the nested-query     *)
(* executor (execute_on_result / parse_query) and the query loop of main.  *)
(*                                                                         *)
(* Text is modelled as Python models it: a str is a sequence of one-       *)
(* character strings, so that splitting, stripping, substring search and   *)
(* the regular expressions of the source act on characters.                *)
(***************************************************************************)
EXTENDS Integers, Sequences, FiniteSets, TLC

(***************************************************************************)
(* Bounds of the model.                                                    *)
(***************************************************************************)
MaxRows == 2      \* tuples per relation given to the operators
MaxQueries == 1   \* queries of one input
MaxDepth == 2     \* operators of one query, nested

(***************************************************************************)
(* Characters.  Alphabet lists the characters of the model in code-point   *)
(* order, which is the order Python compares str values by.                *)
(***************************************************************************)
Alphabet ==
  << "\n", " ", "!", "\"", "#", "'", "(", ")", "+", ",", "-",
     "0", "1", "2", "3", "4", "5", "6", "7", "8", "9",
     "<", "=", ">",
     "N", "R", "S", "Z", "_",
     "a", "b", "c", "d", "e", "f", "g", "h", "i", "j", "k", "l", "m",
     "n", "o", "p", "q", "r", "s", "t", "u", "v", "w", "x", "y", "z",
     "{", "}" >>

AllChars == {Alphabet[k] : k \in 1..Len(Alphabet)}

ord(c) == CHOOSE k \in 1..Len(Alphabet) : Alphabet[k] = c

\* characters matched by \s and removed by str.strip()
Whitespace == {" ", "\n"}

DigitChars == {"0", "1", "2", "3", "4", "5", "6", "7", "8", "9"}

\* characters matched by \w
WordChars ==
  DigitChars \cup {"_", "N", "R", "S", "Z"} \cup
  {"a", "b", "c", "d", "e", "f", "g", "h", "i", "j", "k", "l", "m",
   "n", "o", "p", "q", "r", "s", "t", "u", "v", "w", "x", "y", "z"}

DigitVal(c) == ord(c) - ord("0")

(***************************************************************************)
(* str and list methods.  A value that a function of the source computes   *)
(* once and uses several times is handed on as an argument.                *)
(***************************************************************************)
Min(S) == CHOOSE x \in S : \A y \in S : x <= y
Max(S) == CHOOSE x \in S : \A y \in S : x >= y
MinOrZero(S) == IF S = {} THEN 0 ELSE Min(S)
MaxOrZero(S) == IF S = {} THEN 0 ELSE Max(S)

\* s[i:j] with 1-based inclusive bounds; empty when j < i
Slice(s, i, j) == IF j < i THEN <<>> ELSE SubSeq(s, i, j)

\* str.strip(chars): keep is the set of positions that hold other characters
strip_kept(s, keep) ==
  IF keep = {} THEN <<>> ELSE SubSeq(s, Min(keep), Max(keep))

strip(s, chars) == strip_kept(s, {k \in 1..Len(s) : s[k] \notin chars})

\* str.startswith(p)
startswith(s, p) == Len(p) <= Len(s) /\ SubSeq(s, 1, Len(p)) = p

\* the positions at which sub occurs in s
Occurrences(s, sub) ==
  {k \in 1..(Len(s) - Len(sub) + 1) : SubSeq(s, k, k + Len(sub) - 1) = sub}

\* str.find(sub) + 1: index of the first occurrence, 0 when there is none
find(s, sub) == MinOrZero(Occurrences(s, sub))

\* str.rfind(sub) + 1
rfind(s, sub) == MaxOrZero(Occurrences(s, sub))

\* sub in s
contains(s, sub) == Occurrences(s, sub) # {}

\* str.split(sep): left to right, non-overlapping; k is find(s, sep)
RECURSIVE split(_, _)
split_at(s, sep, k) ==
  IF k = 0 THEN <<s>>
  ELSE <<Slice(s, 1, k - 1)>> \o split(Slice(s, k + Len(sep), Len(s)), sep)

split(s, sep) == split_at(s, sep, find(s, sep))

\* [p.strip() for p in parts]
strip_all(parts) == [k \in 1..Len(parts) |-> strip(parts[k], Whitespace)]

\* list.index(x) + 1 for a member x: position of the first occurrence
index(list, x) == Min({k \in 1..Len(list) : list[k] = x})

\* x in list
InList(x, list) == \E k \in 1..Len(list) : list[k] = x

\* the first position at or after i whose character is not in cs (Len(s) + 1
\* when there is none): where a greedy run of cs that starts at i ends
SkipRun(s, i, cs) ==
  IF \E k \in i..Len(s) : s[k] \notin cs
  THEN Min({k \in i..Len(s) : s[k] \notin cs})
  ELSE IF i > Len(s) THEN i ELSE Len(s) + 1

\* re.match(r'^\w+$', s)
IsWord(s) == Len(s) > 0 /\ \A k \in 1..Len(s) : s[k] \in WordChars

(***************************************************************************)
(* Values.  A Python int n is IntV(n), a Python str s is TextV(s); the tag *)
(* keeps 1 and "1" apart, as Python's == does.                             *)
(***************************************************************************)
IntV(n) == [t |-> "int", i |-> n, s |-> <<>>]
TextV(s) == [t |-> "str", i |-> 0, s |-> s]

RECURSIVE DigitsValue(_)
DigitsValue(ds) ==
  IF ds = <<>> THEN 0
  ELSE 10 * DigitsValue(SubSeq(ds, 1, Len(ds) - 1)) + DigitVal(ds[Len(ds)])

\* digits that single underscores may separate
IsNumeral(num) ==
  /\ Len(num) > 0
  /\ \A k \in 1..Len(num) : num[k] \in DigitChars \cup {"_"}
  /\ num[1] # "_" /\ num[Len(num)] # "_"
  /\ \A k \in 1..(Len(num) - 1) : ~(num[k] = "_" /\ num[k + 1] = "_")

NumeralValue(num) == DigitsValue(SelectSeq(num, LAMBDA c : c # "_"))

int_numeral(num, negative) ==
  IF ~IsNumeral(num) THEN [ok |-> FALSE, n |-> 0]
  ELSE [ok |-> TRUE,
        n |-> IF negative THEN 0 - NumeralValue(num) ELSE NumeralValue(num)]

int_signed(body) ==
  IF Len(body) > 0 /\ body[1] \in {"+", "-"}
  THEN int_numeral(Slice(body, 2, Len(body)), body[1] = "-")
  ELSE int_numeral(body, FALSE)

\* int(s): surrounding whitespace, one optional sign, a numeral;
\* ok is FALSE where int raises ValueError
IntParse(s) == int_signed(strip(s, Whitespace))

coerce_parsed(val, parsed) == IF parsed.ok THEN IntV(parsed.n) ELSE TextV(val)

\* try: int(val) except ValueError: val
coerce(val) == coerce_parsed(val, IntParse(val))

\* s < t for two str
RECURSIVE StrLess(_, _)
StrLess(s, t) ==
  IF t = <<>> THEN FALSE
  ELSE IF s = <<>> THEN TRUE
  ELSE IF s[1] # t[1] THEN ord(s[1]) < ord(t[1])
  ELSE StrLess(Tail(s), Tail(t))

(***************************************************************************)
(* Relations and the store.  A relation dict is a record; the global dict  *)
(* `relations` is a function from names to relation records.               *)
(***************************************************************************)
Relation(attrs, tuples) == [attributes |-> attrs, tuples |-> tuples]

EmptyStore == [n \in {} |-> Relation(<<>>, <<>>)]

\* relations[name] = rel
StorePut(rels, name, rel) ==
  [n \in (DOMAIN rels) \cup {name} |-> IF n = name THEN rel ELSE rels[n]]

\* del relations[name]
StoreDel(rels, name) == [n \in (DOMAIN rels) \ {name} |-> rels[n]]

(***************************************************************************)
(* parse_relation                                                          *)
(***************************************************************************)
\* re.match(r'(\w+)\s*\(([^)]+)\)\s*=\s*\{', text), read left to right:
\* e1 is where the name ends, p1 where "(" must be, p2 where ")" must be,
\* p3 where "=" must be, p4 where "{" must be
header_groups(text, e1, p1, p2, p3, p4) ==
  IF /\ e1 > 1
     /\ p1 <= Len(text) /\ text[p1] = "("
     /\ p2 > p1 + 1
     /\ p2 <= Len(text) /\ text[p2] = ")"
     /\ p3 <= Len(text) /\ text[p3] = "="
     /\ p4 <= Len(text) /\ text[p4] = "{"
  THEN [ok |-> TRUE, name |-> SubSeq(text, 1, e1 - 1),
        attrs |-> SubSeq(text, p1 + 1, p2 - 1)]
  ELSE [ok |-> FALSE, name |-> <<>>, attrs |-> <<>>]

header_brace(text, e1, p1, p2, p3) ==
  header_groups(text, e1, p1, p2, p3, SkipRun(text, p3 + 1, Whitespace))

header_equals(text, e1, p1, p2) ==
  header_brace(text, e1, p1, p2, SkipRun(text, p2 + 1, Whitespace))

header_attrs(text, e1, p1) ==
  header_equals(text, e1, p1, SkipRun(text, p1 + 1, AllChars \ {")"}))

header_name(text, e1) == header_attrs(text, e1, SkipRun(text, e1, Whitespace))

header_match(text) == header_name(text, SkipRun(text, 1, WordChars))

\* the values of one line: strip, strip('"'), int where int accepts
parse_values(values) ==
  [k \in 1..Len(values) |->
     coerce(strip(strip(values[k], Whitespace), {"\""}))]

parse_tuple_line(tuple_line) == parse_values(split(tuple_line, <<",">>))

\* the lines that are neither blank nor comments, parsed
parse_lines(lines) ==
  [k \in 1..Len(lines) |-> parse_tuple_line(lines[k])]

parse_tuples(tuples_text) ==
  IF tuples_text = <<>> THEN <<>>
  ELSE parse_lines(SelectSeq(strip_all(split(tuples_text, <<"\n">>)),
                             LAMBDA l : l # <<>> /\ l[1] # "#"))

\* start, end: find('{') + 1, rfind('}') + 1
parse_body(rels, text, m, start, end) ==
  IF start = 0 \/ end = 0 THEN rels
  ELSE StorePut(rels, m.name,
         Relation(strip_all(split(m.attrs, <<",">>)),
                  parse_tuples(strip(Slice(text, start + 1, end - 1), Whitespace))))

parse_header(rels, text, m) ==
  IF ~m.ok THEN rels
  ELSE parse_body(rels, text, m, find(text, <<"{">>), rfind(text, <<"}">>))

parse_relation(rels, text) == parse_header(rels, text, header_match(text))

(***************************************************************************)
(* Results of a call.  A call returns a relation dict, returns None, or    *)
(* raises; Raised carries the exception's type.                            *)
(***************************************************************************)
NoRelation == Relation(<<>>, <<>>)
Returned(rel) == [kind |-> "relation", rel |-> rel, exc |-> "none"]
None == [kind |-> "None", rel |-> NoRelation, exc |-> "none"]
Raised(e) == [kind |-> "raised", rel |-> NoRelation, exc |-> e]

(***************************************************************************)
(* evaluate_condition                                                      *)
(***************************************************************************)
\* the operator list of the for loop, in the order the loop tries it
condition_ops ==
  << <<">", "=">>, <<"<", "=">>, <<">">>, <<"<">>, <<"=">>, <<"!", "=">> >>

\* the four orderings, from tuple_value < value and tuple_value > value
compare_ordered(op, lt, gt) ==
  [exc |-> "none",
   val |-> IF op = <<">">> THEN gt
           ELSE IF op = <<"<">> THEN lt
           ELSE IF op = <<">", "=">> THEN ~lt
           ELSE ~gt]

\* tuple_value <op> value; an ordering of an int and a str raises TypeError
compare(tuple_value, op, value) ==
  IF op = <<"=">> THEN [exc |-> "none", val |-> tuple_value = value]
  ELSE IF op = <<"!", "=">> THEN [exc |-> "none", val |-> tuple_value # value]
  ELSE IF tuple_value.t # value.t THEN [exc |-> "TypeError", val |-> FALSE]
  ELSE IF value.t = "int"
  THEN compare_ordered(op, tuple_value.i < value.i, tuple_value.i > value.i)
  ELSE compare_ordered(op, StrLess(tuple_value.s, value.s),
                       StrLess(value.s, tuple_value.s))

condition_parsed(value, parsed) ==
  IF parsed.ok THEN IntV(parsed.n) ELSE TextV(strip(value, {"\"", "'"}))

\* try: int(value) except ValueError: value.strip('"\'')
condition_value(value) == condition_parsed(value, IntParse(value))

\* parts = condition.split(op): two parts, the first an attribute
op_splits(parts, attributes) ==
  Len(parts) = 2 /\ InList(strip(parts[1], Whitespace), attributes)

\* the loop body reaches its return (or raises) for condition_ops[k]
op_applies(k, condition, attributes) ==
  /\ contains(condition, condition_ops[k])
  /\ op_splits(split(condition, condition_ops[k]), attributes)

\* the comparison at attr_index of the tuple
evaluate_at(op, attr_index, value, tuple_data) ==
  IF attr_index > Len(tuple_data) THEN [exc |-> "IndexError", val |-> FALSE]
  ELSE compare(tuple_data[attr_index], op, condition_value(value))

evaluate_parts(op, parts, attributes, tuple_data) ==
  evaluate_at(op, index(attributes, strip(parts[1], Whitespace)),
              strip(parts[2], Whitespace), tuple_data)

\* hits: the operators of the list that apply; the loop returns at the first
evaluate_first(hits, condition, attributes, tuple_data) ==
  IF hits = {} THEN [exc |-> "none", val |-> FALSE]
  ELSE evaluate_parts(condition_ops[Min(hits)],
                      split(condition, condition_ops[Min(hits)]),
                      attributes, tuple_data)

evaluate_condition(condition, attributes, tuple_data) ==
  evaluate_first({k \in 1..Len(condition_ops) :
                    op_applies(k, condition, attributes)},
                 condition, attributes, tuple_data)

(***************************************************************************)
(* select_operation, project_operation                                     *)
(***************************************************************************)
\* the for loop of select_operation over the tuples still to visit;
\* e is evaluate_condition's outcome for the first of them
RECURSIVE select_loop(_, _, _, _)
select_next(tuples, condition, attributes, result_tuples, e) ==
  IF e.exc # "none" THEN Raised(e.exc)
  ELSE select_loop(Tail(tuples), condition, attributes,
                   IF e.val THEN Append(result_tuples, Head(tuples))
                   ELSE result_tuples)

select_loop(tuples, condition, attributes, result_tuples) ==
  IF tuples = <<>> THEN Returned(Relation(attributes, result_tuples))
  ELSE select_next(tuples, condition, attributes, result_tuples,
                   evaluate_condition(condition, attributes, Head(tuples)))

select_relation(rel, condition) ==
  select_loop(rel.tuples, condition, rel.attributes, <<>>)

select_operation(rels, relation_name, condition) ==
  IF relation_name \notin DOMAIN rels THEN None
  ELSE select_relation(rels[relation_name], condition)

\* found: the requested attributes that the schema has, in request order
indices_of(found, rel_attributes) ==
  [k \in 1..Len(found) |-> index(rel_attributes, found[k])]

project_indices(attributes, rel_attributes) ==
  indices_of(SelectSeq(attributes, LAMBDA a : InList(a, rel_attributes)),
             rel_attributes)

\* the for loop of project_operation over the tuples still to visit;
\* projected is the projection of the first of them
RECURSIVE project_loop(_, _, _, _, _)
project_next(tuples, indices, attributes, seen, result_tuples, projected) ==
  IF projected \in seen
  THEN project_loop(Tail(tuples), indices, attributes, seen, result_tuples)
  ELSE project_loop(Tail(tuples), indices, attributes, seen \cup {projected},
                    Append(result_tuples, projected))

project_tuple(tuple_data, indices) ==
  [k \in 1..Len(indices) |-> tuple_data[indices[k]]]

project_loop(tuples, indices, attributes, seen, result_tuples) ==
  IF tuples = <<>> THEN Returned(Relation(attributes, result_tuples))
  ELSE IF \E k \in 1..Len(indices) : indices[k] > Len(Head(tuples))
  THEN Raised("IndexError")
  ELSE project_next(tuples, indices, attributes, seen, result_tuples,
                    project_tuple(Head(tuples), indices))

\* the projection of rel on attributes, with result_attrs as the new schema
project_relation(rel, attributes, result_attrs) ==
  project_loop(rel.tuples, project_indices(attributes, rel.attributes),
               result_attrs, {}, <<>>)

\* project_operation returning the operand's schema, not the requested one
project_operation_operand_schema(rels, relation_name, attributes) ==
  IF relation_name \notin DOMAIN rels THEN None
  ELSE project_relation(rels[relation_name], attributes,
                        rels[relation_name].attributes)

project_operation(rels, relation_name, attributes) ==
  IF relation_name \notin DOMAIN rels THEN None
  ELSE project_relation(rels[relation_name], attributes, attributes)

(***************************************************************************)
(* join_operation.  common_attrs is a Python set of str, whose iteration   *)
(* order is not fixed by the program; `order` is the order one run uses.   *)
(***************************************************************************)
common_attrs(rel1, rel2) ==
  {a \in {rel1.attributes[k] : k \in 1..Len(rel1.attributes)} :
     InList(a, rel2.attributes)}

\* the orders in which a for loop may visit the set c
orders_of(c) == {o \in [1..Cardinality(c) -> c] : \A a \in c : InList(a, o)}

\* the orders in which `for attr in common_attrs` may visit the set
common_orders(rel1, rel2) == orders_of(common_attrs(rel1, rel2))

\* result_attrs: rel1's attributes, then rel2's that are not among them
RECURSIVE join_attrs(_, _)
join_attrs(result_attrs, attrs2) ==
  IF attrs2 = <<>> THEN result_attrs
  ELSE join_attrs(IF InList(Head(attrs2), result_attrs) THEN result_attrs
                  ELSE Append(result_attrs, Head(attrs2)),
                  Tail(attrs2))

\* the inner for loop over common_attrs: "valid", "invalid" or "IndexError";
\* idx1, idx2 are the indices of the first attribute of the order
RECURSIVE join_valid(_, _, _, _, _)
join_valid_at(order, rel1, rel2, tuple1, tuple2, idx1, idx2) ==
  IF idx1 > Len(tuple1) \/ idx2 > Len(tuple2) THEN "IndexError"
  ELSE IF tuple1[idx1] # tuple2[idx2] THEN "invalid"
  ELSE join_valid(Tail(order), rel1, rel2, tuple1, tuple2)

join_valid(order, rel1, rel2, tuple1, tuple2) ==
  IF order = <<>> THEN "valid"
  ELSE join_valid_at(order, rel1, rel2, tuple1, tuple2,
                     index(rel1.attributes, Head(order)),
                     index(rel2.attributes, Head(order)))

\* pos: the indices of rel2's attributes that rel1 lacks, ascending
join_extend(tuple1, tuple2, pos) ==
  IF \E k \in 1..Len(pos) : pos[k] > Len(tuple2) THEN Raised("IndexError")
  ELSE Returned(Relation(<<>>,
         <<tuple1 \o [k \in 1..Len(pos) |-> tuple2[pos[k]]]>>))

\* combined = tuple1[:] extended by tuple2's values of the new attributes
join_combine(rel1, rel2, tuple1, tuple2) ==
  join_extend(tuple1, tuple2,
              SelectSeq([k \in 1..Len(rel2.attributes) |-> k],
                        LAMBDA k : ~InList(rel2.attributes[k], rel1.attributes)))

\* the nested for loops, visiting pair number n of the tuple pairs;
\* v is the outcome of the inner loop, c the combined tuple
RECURSIVE join_loop(_, _, _, _, _, _)
join_next(n, order, rel1, rel2, result_attrs, result_tuples, v, c) ==
  IF v = "IndexError" THEN Raised("IndexError")
  ELSE IF v = "invalid"
  THEN join_loop(n + 1, order, rel1, rel2, result_attrs, result_tuples)
  ELSE IF c.kind = "raised" THEN c
  ELSE join_loop(n + 1, order, rel1, rel2, result_attrs,
                 result_tuples \o c.rel.tuples)

join_pair(n, order, rel1, rel2, result_attrs, result_tuples, tuple1, tuple2) ==
  join_next(n, order, rel1, rel2, result_attrs, result_tuples,
            join_valid(order, rel1, rel2, tuple1, tuple2),
            join_combine(rel1, rel2, tuple1, tuple2))

join_loop(n, order, rel1, rel2, result_attrs, result_tuples) ==
  IF Len(rel2.tuples) = 0 \/ n >= Len(rel1.tuples) * Len(rel2.tuples)
  THEN Returned(Relation(result_attrs, result_tuples))
  ELSE join_pair(n, order, rel1, rel2, result_attrs, result_tuples,
                 rel1.tuples[(n \div Len(rel2.tuples)) + 1],
                 rel2.tuples[(n % Len(rel2.tuples)) + 1])

join_operation(rels, relation1_name, relation2_name, order) ==
  IF relation1_name \notin DOMAIN rels \/ relation2_name \notin DOMAIN rels
  THEN None
  ELSE join_loop(0, order, rels[relation1_name], rels[relation2_name],
                 join_attrs(rels[relation1_name].attributes,
                            rels[relation2_name].attributes),
                 <<>>)

(***************************************************************************)
(* union_operation, intersection_operation, difference_operation           *)
(***************************************************************************)
TupleSet(tuples) == {tuples[k] : k \in 1..Len(tuples)}

\* the loop of union_operation without the `seen` test
union_loop_keep_all(tuples, seen, result_tuples) == result_tuples \o tuples

RECURSIVE union_loop(_, _, _)
union_loop(tuples, seen, result_tuples) ==
  IF tuples = <<>> THEN result_tuples
  ELSE IF Head(tuples) \in seen THEN union_loop(Tail(tuples), seen, result_tuples)
  ELSE union_loop(Tail(tuples), seen \cup {Head(tuples)},
                  Append(result_tuples, Head(tuples)))

union_operation(rels, relation1_name, relation2_name) ==
  IF relation1_name \notin DOMAIN rels \/ relation2_name \notin DOMAIN rels
  THEN None
  ELSE IF rels[relation1_name].attributes # rels[relation2_name].attributes
  THEN None
  ELSE Returned(Relation(rels[relation1_name].attributes,
         union_loop(rels[relation1_name].tuples \o rels[relation2_name].tuples,
                    {}, <<>>)))

RECURSIVE intersection_loop(_, _, _, _)
intersection_loop(tuples, rel2_tuples, seen, result_tuples) ==
  IF tuples = <<>> THEN result_tuples
  ELSE IF Head(tuples) \in rel2_tuples /\ Head(tuples) \notin seen
  THEN intersection_loop(Tail(tuples), rel2_tuples, seen \cup {Head(tuples)},
                         Append(result_tuples, Head(tuples)))
  ELSE intersection_loop(Tail(tuples), rel2_tuples, seen, result_tuples)

intersection_operation(rels, relation1_name, relation2_name) ==
  IF relation1_name \notin DOMAIN rels \/ relation2_name \notin DOMAIN rels
  THEN None
  ELSE IF rels[relation1_name].attributes # rels[relation2_name].attributes
  THEN None
  ELSE Returned(Relation(rels[relation1_name].attributes,
         intersection_loop(rels[relation1_name].tuples,
                           TupleSet(rels[relation2_name].tuples), {}, <<>>)))

RECURSIVE difference_loop(_, _, _, _)
difference_loop(tuples, rel2_tuples, seen, result_tuples) ==
  IF tuples = <<>> THEN result_tuples
  ELSE IF Head(tuples) \notin rel2_tuples /\ Head(tuples) \notin seen
  THEN difference_loop(Tail(tuples), rel2_tuples, seen \cup {Head(tuples)},
                       Append(result_tuples, Head(tuples)))
  ELSE difference_loop(Tail(tuples), rel2_tuples, seen, result_tuples)

difference_operation(rels, relation1_name, relation2_name) ==
  IF relation1_name \notin DOMAIN rels \/ relation2_name \notin DOMAIN rels
  THEN None
  ELSE IF rels[relation1_name].attributes # rels[relation2_name].attributes
  THEN None
  ELSE Returned(Relation(rels[relation1_name].attributes,
         difference_loop(rels[relation1_name].tuples,
                         TupleSet(rels[relation2_name].tuples), {}, <<>>)))

(***************************************************************************)
(* The regular expressions of parse_query.  A query is one line of the     *)
(* input (main splits the content on newlines), so `.` matches each of its *)
(* characters.                                                             *)
(***************************************************************************)
KwProject == <<"p", "r", "o", "j", "e", "c", "t">>
KwSelect == <<"s", "e", "l", "e", "c", "t">>
KwJoin == <<"j", "o", "i", "n">>
KwUnion == <<"u", "n", "i", "o", "n">>
KwIntersection ==
  <<"i", "n", "t", "e", "r", "s", "e", "c", "t", "i", "o", "n">>
KwDifference == <<"d", "i", "f", "f", "e", "r", "e", "n", "c", "e">>

\* re.match(kw + r'\s+(.+?)\s*\(\s*(.+)\s*\)', query).  The engine gives \s+
\* the longest run first (w), then grows the lazy group one character at a
\* time (k); the greedy group ends before the last ")" of the query.
\* nested_open is where "(" must be when \s+ took w and the lazy group k.
nested_open(query, lk, w, k) == SkipRun(query, lk + w + k + 1, Whitespace)

nested_fits_at(query, last, open) ==
  open <= Len(query) /\ query[open] = "(" /\ last >= open + 2

nested_fits(query, lk, last, w, k) ==
  nested_fits_at(query, last, nested_open(query, lk, w, k))

\* the lengths of \s+ for which the rest of the pattern matches
nested_runs(query, lk, last) ==
  {w \in 1..(SkipRun(query, lk + 1, Whitespace) - lk - 1) :
     \E k \in 1..(Len(query) - lk - w) : nested_fits(query, lk, last, w, k)}

\* g2 is group(2) with the whitespace before it, which the caller strips
nested_groups(query, lk, last, w0, k0) ==
  [ok |-> TRUE,
   g1 |-> SubSeq(query, lk + w0 + 1, lk + w0 + k0),
   g2 |-> SubSeq(query, nested_open(query, lk, w0, k0) + 1, last - 1)]

nested_lazy(query, lk, last, w0) ==
  nested_groups(query, lk, last, w0,
                Min({k \in 1..(Len(query) - lk - w0) :
                       nested_fits(query, lk, last, w0, k)}))

nested_greedy(kw, query, last, runs) ==
  IF startswith(query, kw) /\ runs # {}
  THEN nested_lazy(query, Len(kw), last, Max(runs))
  ELSE [ok |-> FALSE, g1 |-> <<>>, g2 |-> <<>>]

nested_match(kw, query) ==
  nested_greedy(kw, query, rfind(query, <<")">>),
                nested_runs(query, Len(kw), rfind(query, <<")">>)))

\* re.match(kw + r'\s+(\w+)\s+(\w+)', query), read left to right: the first
\* name is query[a..e1-1], the second query[b..e2-1]
binary_groups(kw, query, a, e1, b, e2) ==
  IF startswith(query, kw) /\ a > Len(kw) + 1 /\ e1 > a /\ b > e1 /\ e2 > b
  THEN [ok |-> TRUE, rel1 |-> SubSeq(query, a, e1 - 1),
        rel2 |-> SubSeq(query, b, e2 - 1)]
  ELSE [ok |-> FALSE, rel1 |-> <<>>, rel2 |-> <<>>]

binary_second(kw, query, a, e1, b) ==
  binary_groups(kw, query, a, e1, b, SkipRun(query, b, WordChars))

binary_gap(kw, query, a, e1) ==
  binary_second(kw, query, a, e1, SkipRun(query, e1, Whitespace))

binary_first(kw, query, a) ==
  binary_gap(kw, query, a, SkipRun(query, a, WordChars))

binary_match(kw, query) ==
  binary_first(kw, query, SkipRun(query, Len(kw) + 1, Whitespace))

\* [attr.strip() for attr in attrs_str.split(',')]
attr_list(attrs_str) == strip_all(split(attrs_str, <<",">>))

(***************************************************************************)
(* execute_on_result                                                       *)
(***************************************************************************)
temp_name == <<"t", "e", "m", "p", "_", "r", "e", "s", "u", "l", "t">>

\* operation_func(relation_name, *args) for the two functions parse_query
\* passes: func is "project" (arg: attribute list) or "select" (arg: condition)
operation_func(func, rels, relation_name, arg) ==
  IF func = "project" THEN project_operation(rels, relation_name, arg)
  ELSE select_operation(rels, relation_name, arg)

\* staging that leaves an entry already stored under temp_name in place
stage_if_absent(rels, operation_result) ==
  IF temp_name \in DOMAIN rels THEN rels
  ELSE StorePut(rels, temp_name, operation_result)

\* relations[temp_name] = operation_result
stage(rels, operation_result) == StorePut(rels, temp_name, operation_result)

\* del relations[temp_name]
cleanup(rels) == StoreDel(rels, temp_name)

\* after operation_func: a raise skips the del
execute_applied(staged, result) ==
  IF result.kind = "raised" THEN [result |-> result, rels |-> staged]
  ELSE [result |-> result, rels |-> cleanup(staged)]

execute_staged(staged, func, arg) ==
  execute_applied(staged, operation_func(func, staged, temp_name, arg))

\* the whole call: the value it returns or the exception it raises, and the
\* store it leaves
execute_on_result(rels, operation_result, func, arg) ==
  IF operation_result.kind # "relation" THEN [result |-> None, rels |-> rels]
  ELSE execute_staged(stage(rels, operation_result.rel), func, arg)

(***************************************************************************)
(* Inputs: definition blocks and query lines, written as text.             *)
(***************************************************************************)
NameR == <<"R">>
NameS == <<"S">>
NameN == <<"N">>          \* a name no block defines
AttrA == <<"a">>
AttrB == <<"b">>
AttrC == <<"c">>
AttrABang == <<"a", "!">>

RECURSIVE JoinText(_, _)
JoinText(parts, sep) ==
  IF parts = <<>> THEN <<>>
  ELSE IF Len(parts) = 1 THEN parts[1]
  ELSE parts[1] \o sep \o JoinText(Tail(parts), sep)

\* the text "name (a1, a2) = {\n v, v\n v, v\n}"
BlockText(name, attrs, rows) ==
  name \o <<" ", "(">> \o JoinText(attrs, <<",", " ">>) \o <<")", " ", "=", " ", "{", "\n">>
  \o JoinText([k \in 1..Len(rows) |-> JoinText(rows[k], <<",", " ">>)], <<"\n">>)
  \o <<"\n", "}">>

Tok1 == <<"1">>
Tok2 == <<"2">>
Tok3 == <<"3">>
TokX == <<"\"", "x", "\"">>

\* the definition blocks of the runs of main
DefTexts ==
  { BlockText(NameR, <<AttrA, AttrB>>, << <<Tok1, Tok2>>, <<Tok2, TokX>> >>),
    BlockText(NameS, <<AttrA, AttrB>>, << <<Tok2, Tok2>>, <<Tok2, Tok2>> >>),
    BlockText(NameS, <<AttrB, AttrC>>, << <<Tok2, Tok3>> >>),
    BlockText(temp_name, <<AttrA, AttrB>>, << <<Tok3, Tok3>> >>),
    NameR \o <<" ", "a", " ", "=", " ", "{", "\n", "1", "\n", "}">> }

CondTexts == { <<"a", ">", "1">>, <<"b", ">", "1">> }
AttrTexts == { <<"a">>, <<"c", ",", "a">> }

SelectText(cond, q) == KwSelect \o <<" ">> \o cond \o <<" ", "(">> \o q \o <<")">>
ProjectText(attrs, q) == KwProject \o <<" ">> \o attrs \o <<" ", "(">> \o q \o <<")">>
BinaryText(kw, n1, n2) == kw \o <<" ">> \o n1 \o <<" ">> \o n2
\* the forms without parentheses
SelectBare(cond, n) == KwSelect \o <<" ">> \o cond \o <<" ">> \o n
ProjectBare(attrs, n) == KwProject \o <<" ">> \o attrs \o <<" ">> \o n

OperandNames == {NameR, NameN, temp_name}

BinaryTexts ==
  { BinaryText(KwJoin, NameR, NameS),
    BinaryText(KwUnion, NameR, NameS), BinaryText(KwUnion, NameR, NameN),
    BinaryText(KwIntersection, NameR, NameS),
    BinaryText(KwDifference, NameR, NameS) }

Wrap(qs) ==
  {SelectText(c, q) : c \in CondTexts, q \in qs} \cup
  {ProjectText(a, q) : a \in AttrTexts, q \in qs}

RECURSIVE NestedTexts(_)
NestedTexts(d) ==
  IF d <= 1 THEN Wrap(OperandNames) \cup BinaryTexts
  ELSE NestedTexts(d - 1) \cup Wrap(NestedTexts(d - 1))

BareTexts ==
  {SelectBare(c, n) : c \in CondTexts, n \in {NameR, NameN}} \cup
  {ProjectBare(a, n) : a \in AttrTexts, n \in {NameR}}

Unrecognized == { <<"f", "o", "o">> }

QueryTexts == NestedTexts(MaxDepth) \cup BareTexts \cup Unrecognized

(***************************************************************************)
(* State.                                                                  *)
(*   relations  the global dict of relations                               *)
(*   status     where main is: "load", "run", "raising", "aborted", "done";*)
(*              "ops" while the operators are applied on their own         *)
(*   nqueries   len(queries)                                               *)
(*   i          index of the for loop over queries                         *)
(*   query      the query main passed to parse_query                       *)
(*   pre        the store when main called parse_query                     *)
(*   stack      the active calls of parse_query, outermost first           *)
(*   ret        <<v>> when a call has just returned v to its caller        *)
(*   out        what main wrote for each query: "result" or "error"        *)
(*   inp, opc, res   arguments, position and results of the operator run   *)
(***************************************************************************)
VARIABLES relations, status, nqueries, i, query, pre, stack, ret, out,
          inp, opc, res

vars == <<relations, status, nqueries, i, query, pre, stack, ret, out,
          inp, opc, res>>

opvars == <<inp, opc, res>>

Unset == [kind |-> "unset", rel |-> NoRelation, exc |-> "none"]

NoInput == [attrs |-> <<>>, cattr |-> <<>>, cop |-> <<>>, clit |-> <<>>]

NoResults ==
  [sel |-> Unset, proj |-> Unset, projsel |-> Unset, selproj |-> Unset,
   projproj |-> Unset, union |-> Unset, inter |-> Unset, diff |-> Unset,
   join |-> Unset]

\* a call of parse_query(query) that has stripped its argument
Frame(q) ==
  [query |-> strip(q, Whitespace), rule |-> "project", pc |-> "match",
   func |-> "none", arg |-> <<>>, operand |-> NoRelation, result |-> None]

Top == stack[Len(stack)]
Pop == SubSeq(stack, 1, Len(stack) - 1)
SetTop(f) == [stack EXCEPT ![Len(stack)] = f]

\* the rule parse_query tries after `rule`
next_rule(rule) == IF rule = "project" THEN "select" ELSE "binary"

Init ==
  /\ relations = EmptyStore
  /\ status = "load"
  /\ nqueries = 0
  /\ i = 0
  /\ query = <<>>
  /\ pre = EmptyStore
  /\ stack = <<>>
  /\ ret = <<>>
  /\ out = <<>>
  /\ inp = NoInput /\ opc = 0 /\ res = NoResults

\* parse_all_relations hands one block to parse_relation
parse_relation_step ==
  /\ status = "load"
  /\ \E text \in DefTexts : relations' = parse_relation(relations, text)
  /\ UNCHANGED <<status, nqueries, i, query, pre, stack, ret, out, opvars>>

\* main has collected the query lines of the input
main_extract ==
  /\ status = "load"
  /\ \E n \in 0..MaxQueries : nqueries' = n
  /\ status' = "run"
  /\ UNCHANGED <<relations, i, query, pre, stack, ret, out, opvars>>

\* result = parse_query(query) is entered for the next query
main_call ==
  /\ status = "run" /\ stack = <<>> /\ ret = <<>>
  /\ i < nqueries
  /\ \E q \in QueryTexts : query' = q /\ stack' = <<Frame(q)>>
  /\ pre' = relations
  /\ UNCHANGED <<relations, status, nqueries, i, ret, out, opvars>>

\* the active call returns r to its caller, or r is an exception on its way up
Return(r) ==
  IF r.kind = "raised"
  THEN /\ status' = "raising"
       /\ UNCHANGED <<stack, ret>>
  ELSE /\ stack' = Pop
       /\ ret' = <<r>>
       /\ UNCHANGED status

rule_keyword(rule) == IF rule = "project" THEN KwProject ELSE KwSelect

\* the operator's argument from group(1): project's attribute list, or
\* select's condition
rule_arg(rule, first) == IF rule = "project" THEN attr_list(first) ELSE first

\* the rule has matched: a relation name is operated on at once, anything
\* else is a query for a recursive call
parse_query_operand(arg, inner_query) ==
  IF IsWord(inner_query)
  THEN Return(operation_func(Top.rule, relations, inner_query, arg))
  ELSE /\ stack' = Append(SetTop([Top EXCEPT !.pc = "inner",
                                               !.func = Top.rule,
                                               !.arg = arg]),
                           Frame(inner_query))
       /\ UNCHANGED <<status, ret>>

\* m is the outcome of re.match for the rule
parse_query_groups(m) ==
  IF ~m.ok
  THEN /\ stack' = SetTop([Top EXCEPT !.rule = next_rule(Top.rule)])
       /\ UNCHANGED <<status, ret>>
  ELSE parse_query_operand(rule_arg(Top.rule, strip(m.g1, Whitespace)),
                           strip(m.g2, Whitespace))

\* the nested-project or nested-select rule is tried on the query
parse_query_match ==
  /\ status = "run" /\ stack # <<>> /\ ret = <<>>
  /\ Top.pc = "match" /\ Top.rule \in {"project", "select"}
  /\ parse_query_groups(nested_match(rule_keyword(Top.rule), Top.query))
  /\ UNCHANGED <<relations, nqueries, i, query, pre, out, opvars>>

\* inner_result = parse_query(inner_query) has returned: `if inner_result:`
parse_query_inner ==
  /\ status = "run" /\ stack # <<>> /\ ret # <<>>
  /\ Top.pc = "inner"
  /\ IF ret[1].kind = "relation"
     THEN stack' = SetTop([Top EXCEPT !.pc = "exec", !.operand = ret[1].rel])
     ELSE stack' = SetTop([Top EXCEPT !.pc = "match",
                                      !.rule = next_rule(Top.rule)])
  /\ ret' = <<>>
  /\ UNCHANGED <<relations, status, nqueries, i, query, pre, out, opvars>>

\* execute_on_result: relations[temp_name] = operation_result
execute_on_result_stage ==
  /\ status = "run" /\ stack # <<>>
  /\ Top.pc = "exec"
  /\ relations' = stage(relations, Top.operand)
  /\ stack' = SetTop([Top EXCEPT !.pc = "staged"])
  /\ UNCHANGED <<status, nqueries, i, query, pre, ret, out, opvars>>

\* operation_func has returned result or raised
execute_on_result_applied(result) ==
  IF result.kind = "raised"
  THEN status' = "raising" /\ UNCHANGED stack
  ELSE /\ stack' = SetTop([Top EXCEPT !.pc = "applied", !.result = result])
       /\ UNCHANGED status

\* execute_on_result: result = operation_func(temp_name, *args)
execute_on_result_apply ==
  /\ status = "run" /\ stack # <<>>
  /\ Top.pc = "staged"
  /\ execute_on_result_applied(
       operation_func(Top.func, relations, temp_name, Top.arg))
  /\ UNCHANGED <<relations, nqueries, i, query, pre, ret, out, opvars>>

\* execute_on_result: del relations[temp_name]; return result
execute_on_result_cleanup ==
  /\ status = "run" /\ stack # <<>>
  /\ Top.pc = "applied"
  /\ relations' = cleanup(relations)
  /\ stack' = Pop
  /\ ret' = <<Top.result>>
  /\ UNCHANGED <<status, nqueries, i, query, pre, out, opvars>>

\* the orders one run may visit common_attrs in, for a join of n1 and n2
join_orders(rels, n1, n2) ==
  IF n1 \in DOMAIN rels /\ n2 \in DOMAIN rels
  THEN common_orders(rels[n1], rels[n2]) ELSE {<<>>}

\* the same for m, the outcome of the join rule's re.match
binary_orders(rels, m) ==
  IF m.ok THEN join_orders(rels, m.rel1, m.rel2) ELSE {<<>>}

\* the join, union, intersection and difference rules, then `return None`;
\* m is the outcome of the rule's re.match
rule_difference(rels, m) ==
  IF m.ok THEN difference_operation(rels, m.rel1, m.rel2) ELSE None

rule_intersection(rels, q, m) ==
  IF m.ok THEN intersection_operation(rels, m.rel1, m.rel2)
  ELSE rule_difference(rels, binary_match(KwDifference, q))

rule_union(rels, q, m) ==
  IF m.ok THEN union_operation(rels, m.rel1, m.rel2)
  ELSE rule_intersection(rels, q, binary_match(KwIntersection, q))

rule_join(rels, q, order, m) ==
  IF m.ok THEN join_operation(rels, m.rel1, m.rel2, order)
  ELSE rule_union(rels, q, binary_match(KwUnion, q))

binary_rules(rels, q, order) ==
  rule_join(rels, q, order, binary_match(KwJoin, q))

parse_query_binary ==
  /\ status = "run" /\ stack # <<>> /\ ret = <<>>
  /\ Top.pc = "match" /\ Top.rule = "binary"
  /\ \E order \in binary_orders(relations, binary_match(KwJoin, Top.query)) :
       Return(binary_rules(relations, Top.query, order))
  /\ UNCHANGED <<relations, nqueries, i, query, pre, out, opvars>>

\* main writes the result or the error line and goes to the next query
main_record ==
  /\ status = "run" /\ stack = <<>> /\ ret # <<>>
  /\ out' = Append(out, IF ret[1].kind = "relation" THEN "result" ELSE "error")
  /\ i' = i + 1
  /\ ret' = <<>>
  /\ UNCHANGED <<relations, status, nqueries, query, pre, stack, opvars>>

\* the for loop over queries ends
main_done ==
  /\ status = "run" /\ stack = <<>> /\ ret = <<>>
  /\ i = nqueries
  /\ status' = "done"
  /\ UNCHANGED <<relations, nqueries, i, query, pre, stack, ret, out, opvars>>

\* `except Exception as e` of main catches what a query raised
main_except ==
  /\ status = "raising"
  /\ status' = "aborted"
  /\ stack' = <<>>
  /\ UNCHANGED <<relations, nqueries, i, query, pre, ret, out, opvars>>

Next ==
  \/ parse_relation_step
  \/ main_extract
  \/ main_call
  \/ parse_query_match
  \/ parse_query_inner
  \/ execute_on_result_stage
  \/ execute_on_result_apply
  \/ execute_on_result_cleanup
  \/ parse_query_binary
  \/ main_record
  \/ main_done
  \/ main_except

Spec == Init /\ [][Next]_vars

(***************************************************************************)
(* The operators on their own: one relation R is defined from a block of   *)
(* text, next to a fixed relation S, and each operator is applied to it,   *)
(* select and project also to each other's result as parse_query applies   *)
(* them to a nested query.                                                 *)
(***************************************************************************)
OpSchemas == { <<AttrA, AttrB>>, <<AttrABang, AttrA>> }
OpTokens == { Tok2, TokX }

\* the lines of a block for a schema: every aligned line, one line that is a
\* value short and one that is a value long
OpLines(schema) ==
  [1..Len(schema) -> OpTokens] \cup
  { [k \in 1..(Len(schema) - 1) |-> Tok2], [k \in 1..(Len(schema) + 1) |-> Tok2] }

RECURSIVE SeqsUpTo(_, _)
SeqsUpTo(S, n) ==
  IF n = 0 THEN {<<>>}
  ELSE SeqsUpTo(S, n - 1) \cup [1..n -> S]

OpBlockTexts ==
  UNION { {BlockText(NameR, schema, rows) : rows \in SeqsUpTo(OpLines(schema), MaxRows)} :
          schema \in OpSchemas }

OpBlockS == BlockText(NameS, <<AttrA, AttrC>>, << <<Tok2, Tok3>>, <<TokX, Tok3>> >>)

OpAttrLists == { <<AttrA>>, <<AttrA, AttrB>>, <<AttrB, AttrA>>, <<AttrC, AttrA>> }

OpInputs ==
  [text : OpBlockTexts,
   attrs : OpAttrLists,
   cattr : {AttrA},
   cop : {condition_ops[k] : k \in 1..Len(condition_ops)},
   clit : { <<"2">>, <<"x">> }]

\* the condition text "attr op literal" of the input
Condition == inp.cattr \o inp.cop \o inp.clit

InitOps ==
  /\ relations = EmptyStore
  /\ status = "ops"
  /\ nqueries = 0 /\ i = 0 /\ query = <<>> /\ pre = EmptyStore
  /\ stack = <<>> /\ ret = <<>> /\ out = <<>>
  /\ inp \in OpInputs
  /\ opc = 0
  /\ res = NoResults

runvars == <<status, nqueries, i, query, pre, stack, ret, out>>

\* parse_relation stores R and S
op_parse_relation ==
  /\ status = "ops" /\ opc = 0
  /\ relations' = parse_relation(parse_relation(relations, inp.text), OpBlockS)
  /\ opc' = opc + 1
  /\ UNCHANGED <<runvars, inp, res>>

op_select ==
  /\ status = "ops" /\ opc = 1
  /\ res' = [res EXCEPT !.sel = select_operation(relations, NameR, Condition)]
  /\ opc' = opc + 1
  /\ UNCHANGED <<runvars, relations, inp>>

op_project ==
  /\ status = "ops" /\ opc = 2
  /\ res' = [res EXCEPT !.proj = project_operation(relations, NameR, inp.attrs)]
  /\ opc' = opc + 1
  /\ UNCHANGED <<runvars, relations, inp>>

\* `if inner_result: return execute_on_result(inner_result, func, arg)`,
\* with None returned and an exception passed on otherwise
nested_call(rels, inner_result, func, arg) ==
  IF inner_result.kind = "relation"
  THEN execute_on_result(rels, inner_result, func, arg)
  ELSE [result |-> inner_result, rels |-> rels]

\* the nested call has ended with e: its value and the store it leaves
op_nested(field, e) ==
  /\ res' = [res EXCEPT ![field] = e.result]
  /\ relations' = e.rels

\* project attrs (select cond (R))
op_project_select ==
  /\ status = "ops" /\ opc = 3
  /\ op_nested("projsel", nested_call(relations, res.sel, "project", inp.attrs))
  /\ opc' = opc + 1
  /\ UNCHANGED <<runvars, inp>>

\* select cond (project attrs (R))
op_select_project ==
  /\ status = "ops" /\ opc = 4
  /\ op_nested("selproj", nested_call(relations, res.proj, "select", Condition))
  /\ opc' = opc + 1
  /\ UNCHANGED <<runvars, inp>>

\* project attrs (project attrs (R))
op_project_project ==
  /\ status = "ops" /\ opc = 5
  /\ op_nested("projproj", nested_call(relations, res.proj, "project", inp.attrs))
  /\ opc' = opc + 1
  /\ UNCHANGED <<runvars, inp>>

op_union ==
  /\ status = "ops" /\ opc = 6
  /\ res' = [res EXCEPT !.union = union_operation(relations, NameR, NameR)]
  /\ opc' = opc + 1
  /\ UNCHANGED <<runvars, relations, inp>>

op_intersection ==
  /\ status = "ops" /\ opc = 7
  /\ res' = [res EXCEPT !.inter = intersection_operation(relations, NameR, NameR)]
  /\ opc' = opc + 1
  /\ UNCHANGED <<runvars, relations, inp>>

op_difference ==
  /\ status = "ops" /\ opc = 8
  /\ res' = [res EXCEPT !.diff = difference_operation(relations, NameR, NameR)]
  /\ opc' = opc + 1
  /\ UNCHANGED <<runvars, relations, inp>>

op_join ==
  /\ status = "ops" /\ opc = 9
  /\ \E order \in join_orders(relations, NameR, NameS) :
       res' = [res EXCEPT !.join = join_operation(relations, NameR, NameS, order)]
  /\ opc' = opc + 1
  /\ UNCHANGED <<runvars, relations, inp>>

NextOps ==
  \/ op_parse_relation
  \/ op_select
  \/ op_project
  \/ op_project_select
  \/ op_select_project
  \/ op_project_project
  \/ op_union
  \/ op_intersection
  \/ op_difference
  \/ op_join

SpecOps == InitOps /\ [][NextOps]_vars

(***************************************************************************)
(* Evaluation by value: the control flow of parse_query with every         *)
(* intermediate relation handed to the enclosing operator as a value, the  *)
(* store never written.  `order` is the order the join of the query, if it *)
(* has one, visits common_attrs in.                                        *)
(***************************************************************************)
\* the operator of the rule applied to the value r of the inner query;
\* <<v>>: the rule returns v; <<>>: parse_query goes on to the next rule
eval_apply(rule, arg, r) ==
  IF r.kind = "relation"
  THEN <<IF rule = "project" THEN project_relation(r.rel, arg, arg)
         ELSE select_relation(r.rel, arg)>>
  ELSE IF r.kind = "raised" THEN <<r>>
  ELSE <<>>

RECURSIVE EvalValue(_, _, _)
eval_operand(rule, rels, order, arg, inner_query) ==
  IF IsWord(inner_query)
  THEN <<operation_func(rule, rels, inner_query, arg)>>
  ELSE eval_apply(rule, arg, EvalValue(rels, inner_query, order))

eval_rule(rule, rels, order, m) ==
  IF ~m.ok THEN <<>>
  ELSE eval_operand(rule, rels, order,
                    rule_arg(rule, strip(m.g1, Whitespace)),
                    strip(m.g2, Whitespace))

\* the value of the first rule that returns
eval_first(p, rest) == IF p # <<>> THEN p[1] ELSE rest

eval_text(rels, text, order) ==
  eval_first(eval_rule("project", rels, order, nested_match(KwProject, text)),
    eval_first(eval_rule("select", rels, order, nested_match(KwSelect, text)),
               binary_rules(rels, text, order)))

EvalValue(rels, q, order) == eval_text(rels, strip(q, Whitespace), order)

\* the match of the nested rule parse_query tries first
nested_either(mp, ms) == IF mp.ok THEN mp ELSE ms

nested_rule(text) ==
  nested_either(nested_match(KwProject, text), nested_match(KwSelect, text))

\* the innermost query of a nested query
RECURSIVE Innermost(_)
innermost_operand(text, matched, inner_query) ==
  IF matched /\ ~IsWord(inner_query) THEN Innermost(inner_query) ELSE text

innermost_groups(text, m) ==
  innermost_operand(text, m.ok, strip(m.g2, Whitespace))

innermost_text(text) == innermost_groups(text, nested_rule(text))

Innermost(q) == innermost_text(strip(q, Whitespace))

\* the orders the join of query q, if it has one, may visit common_attrs in
LeafOrders(rels, q) == binary_orders(rels, binary_match(KwJoin, Innermost(q)))

\* main's call of parse_query has returned and main has not yet used the value
CallReturned == status = "run" /\ stack = <<>> /\ ret # <<>>

(***************************************************************************)
(* C1: the store after a call of parse_query equals the store before it,   *)
(* whether the query returned a relation, returned no relation, or raised. *)
(***************************************************************************)
C1_StoreRestored ==
  (CallReturned \/ status = "aborted") => relations = pre

(***************************************************************************)
(* C2: every query of a run is evaluated and answered by a result or an    *)
(* error line; no query keeps the queries after it from being evaluated.   *)
(***************************************************************************)
C2_EveryQueryAnswered ==
  status \in {"done", "aborted"} => Len(out) = nqueries

(***************************************************************************)
(* C4: the value returned for a failing query tells the failure kind: the  *)
(* value for a query that fails with one kind differs from the value a     *)
(* query failing with another kind returns, and from an empty relation.    *)
(***************************************************************************)
\* the failure kind section 7 of the design gives a flat query over rels;
\* m is the outcome of the rule's re.match
failure_operand(rels, inner_query) ==
  IF IsWord(inner_query) /\ inner_query \notin DOMAIN rels
  THEN "RelationNotFound" ELSE "none"

failure_pair(rels, m, same_schema) ==
  IF m.rel1 \notin DOMAIN rels \/ m.rel2 \notin DOMAIN rels
  THEN "RelationNotFound"
  ELSE IF same_schema /\ rels[m.rel1].attributes # rels[m.rel2].attributes
  THEN "SchemaMismatch" ELSE "none"

failure_difference(rels, m) ==
  IF m.ok THEN failure_pair(rels, m, TRUE) ELSE "UnrecognizedQuery"

failure_intersection(rels, text, m) ==
  IF m.ok THEN failure_pair(rels, m, TRUE)
  ELSE failure_difference(rels, binary_match(KwDifference, text))

failure_union(rels, text, m) ==
  IF m.ok THEN failure_pair(rels, m, TRUE)
  ELSE failure_intersection(rels, text, binary_match(KwIntersection, text))

failure_join(rels, text, m) ==
  IF m.ok THEN failure_pair(rels, m, FALSE)
  ELSE failure_union(rels, text, binary_match(KwUnion, text))

failure_nested(rels, text, m) ==
  IF m.ok THEN failure_operand(rels, strip(m.g2, Whitespace))
  ELSE failure_join(rels, text, binary_match(KwJoin, text))

failure_text(rels, text) == failure_nested(rels, text, nested_rule(text))

ExpectedFailure(rels, q) == failure_text(rels, strip(q, Whitespace))

FailureProbes ==
  Unrecognized \cup
  {BinaryText(KwUnion, NameR, NameN), BinaryText(KwUnion, NameR, NameS)}

C4_FailureKindIdentified ==
  CallReturned /\ ExpectedFailure(pre, query) # "none" =>
    /\ ret[1] # Returned(Relation(<<>>, <<>>))
    /\ \A probe \in FailureProbes :
         ExpectedFailure(pre, probe) \notin {"none", ExpectedFailure(pre, query)}
           => ret[1] # EvalValue(pre, probe, <<>>)

(***************************************************************************)
(* C9: for a relation n of the store, 'select cond n' returns the relation *)
(* 'select cond (n)' returns and 'project attrs n' the relation            *)
(* 'project attrs (n)' returns; neither is answered with no relation.      *)
(***************************************************************************)
C9_BareFormsAccepted ==
  CallReturned =>
    /\ \A c \in CondTexts, n \in DOMAIN pre :
         query = SelectBare(c, n) =>
           ret[1].kind # "None" /\ ret[1] = EvalValue(pre, SelectText(c, n), <<>>)
    /\ \A a \in AttrTexts, n \in DOMAIN pre :
         query = ProjectBare(a, n) =>
           ret[1].kind # "None" /\ ret[1] = EvalValue(pre, ProjectText(a, n), <<>>)

Aligned(rel) ==
  \A k \in 1..Len(rel.tuples) : Len(rel.tuples[k]) = Len(rel.attributes)

ResultFields ==
  {"sel", "proj", "projsel", "selproj", "projproj", "union", "inter", "diff", "join"}

\* the relation R the operators are applied to
OpR == relations[NameR]

(***************************************************************************)
(* C3: every tuple of every stored relation has as many values as the      *)
(* schema has attributes, and so has every relation an operator returns    *)
(* for aligned operands (project with an unknown attribute included).      *)
(***************************************************************************)
C3_TuplesMatchSchema ==
  /\ \A n \in DOMAIN relations \ {temp_name} : Aligned(relations[n])
  /\ (\A n \in DOMAIN relations \ {temp_name} : Aligned(relations[n])) =>
       \A f \in ResultFields : res[f].kind = "relation" => Aligned(res[f].rel)

(***************************************************************************)
(* C5: when the condition's attribute is in attrs, project attrs (select   *)
(* cond (R)) and select cond (project attrs (R)) both return a relation,   *)
(* and the two relations have the same set of tuples.                      *)
(***************************************************************************)
C5_SelectProjectCommute ==
  opc > 4 /\ InList(inp.cattr, inp.attrs) =>
    /\ res.projsel.kind = "relation"
    /\ res.selproj.kind = "relation"
    /\ TupleSet(res.projsel.rel.tuples) = TupleSet(res.selproj.rel.tuples)

(***************************************************************************)
(* C6: for attrs within R's schema, project attrs applied to the result of *)
(* project attrs on R returns that result: same schema, same tuples, same  *)
(* order.                                                                  *)
(***************************************************************************)
C6_ProjectIdempotent ==
  ( /\ opc > 5
    /\ \A k \in 1..Len(inp.attrs) : InList(inp.attrs[k], OpR.attributes)
    /\ res.proj.kind = "relation" )
  => res.projproj = res.proj

\* project has dropped a duplicate and was applied again
C6_Witness ==
  /\ opc > 5
  /\ \A k \in 1..Len(inp.attrs) : InList(inp.attrs[k], OpR.attributes)
  /\ res.proj.kind = "relation"
  /\ res.proj.rel.tuples # <<>>
  /\ Len(res.proj.rel.tuples) < Len(OpR.tuples)
  /\ res.projproj.kind = "relation"

(***************************************************************************)
(* C7: Union(R,R) and Intersection(R,R) return R's schema with R's tuples, *)
(* each at its first occurrence, in R's order; Difference(R,R) returns R's *)
(* schema with no tuples.                                                  *)
(***************************************************************************)
\* the tuples of ts that no earlier tuple of ts equals, in the order of ts
first_positions(ts) ==
  SelectSeq([k \in 1..Len(ts) |-> k],
            LAMBDA k : \A j \in 1..(k - 1) : ts[j] # ts[k])

tuples_at(ts, pos) == [k \in 1..Len(pos) |-> ts[pos[k]]]

FirstOccurrences(ts) == tuples_at(ts, first_positions(ts))

C7_SelfSetOperations ==
  opc > 8 =>
    /\ res.union = Returned(Relation(OpR.attributes, FirstOccurrences(OpR.tuples)))
    /\ res.inter = Returned(Relation(OpR.attributes, FirstOccurrences(OpR.tuples)))
    /\ res.diff = Returned(Relation(OpR.attributes, <<>>))

\* R holds one tuple twice and the three operators were applied to it
C7_Witness ==
  /\ opc > 8
  /\ Len(OpR.tuples) >= 2
  /\ OpR.tuples[1] = OpR.tuples[2]
  /\ Len(res.union.rel.tuples) = 1

(***************************************************************************)
(* C8: for a condition "attr op literal" with attr in the schema, select   *)
(* keeps exactly the tuples whose attr value compares with the literal     *)
(* under op; no two-character operator is split at its second character.   *)
(***************************************************************************)
\* tuple t has a value for the condition's attribute and the comparison of
\* that value with the literal under the condition's operator is defined
Comparable(t) ==
  /\ index(OpR.attributes, inp.cattr) <= Len(t)
  /\ compare(t[index(OpR.attributes, inp.cattr)], inp.cop,
             condition_value(inp.clit)).exc = "none"

C8_OperatorNotSplit ==
  ( /\ opc > 1
    /\ InList(inp.cattr, OpR.attributes)
    /\ \A k \in 1..Len(OpR.tuples) : Comparable(OpR.tuples[k]) )
  => res.sel =
       Returned(Relation(OpR.attributes,
         SelectSeq(OpR.tuples,
           LAMBDA t : compare(t[index(OpR.attributes, inp.cattr)], inp.cop,
                              condition_value(inp.clit)).val)))

====
